---- MODULE Spec2Model ----
(***************************************************************************)
(* FileOrgAI: the directory scanner (get_relative_paths) and the change    *)
(* applier (create_change_log, apply_changes) of src/main.py.              *)
(*                                                                         *)
(* A path is a sequence of names relative to the organized directory; the  *)
(* directory itself is the empty sequence.  A filesystem is a function     *)
(* from the paths that exist to "dir" or to the identity of a file.        *)
(***************************************************************************)
EXTENDS Naturals, Sequences, FiniteSets, TLC

VARIABLES
    fs,              \* the tree under the organized directory
    fs0,             \* the tree when the program started
    large_folders,   \* global large_folders: folders the operator excluded
    new_folders,     \* organization.new_folders
    FilePath,        \* organization.FilePath: sequence of [original, new]
    dry_run,         \* os.getenv("DRY_RUN", "true").lower() == "true"
    pc,              \* position in main / apply_changes / get_relative_paths
    i,               \* index of the loop of the current phase
    old_folders,     \* phase 5: entries of old_folders not yet iterated
    log,             \* logger output of execute_or_log, in order
    dryLog,          \* what the preceding dry run logged
    run,             \* 1: first run of main, 2: second run (DRY_RUN=false)
    changeLog,       \* reorganization_change_log.txt
    errs,            \* errors raised in this run of apply_changes
    choice,          \* user_choice: the operator's last answer, lowercased
    result,          \* how apply_changes returned
    stack,           \* os.walk: directories still to visit (top first)
    relative_paths,  \* get_relative_paths: eligible files collected
    prompted,        \* get_relative_paths: prompts shown, in order
    visited          \* get_relative_paths: directories os.walk yielded

vars == <<fs, fs0, large_folders, new_folders, FilePath, dry_run, pc, i,
          old_folders, log, dryLog, run, changeLog, errs, choice, result,
          stack, relative_paths, prompted, visited>>

applyVars == <<new_folders, FilePath, dry_run, i, old_folders, log, dryLog,
               run, changeLog, errs, result>>

scanVars == <<stack, relative_paths, prompted, visited>>

----------------------------------------------------------------------------
(* Bounds of the model.                                                    *)

\* longest organization.FilePath
MaxPairs == 2
\* injected PermissionErrors per run of apply_changes
MaxFaults == 1
\* directories below the scan root
MaxDirs == 3

----------------------------------------------------------------------------
(* Paths and the filesystem (os.path, os, shutil).                         *)

Root == <<>>

IsPrefix(p, q) == Len(p) <= Len(q) /\ SubSeq(q, 1, Len(p)) = p

Under(p, q) == IsPrefix(p, q) /\ p # q

dirname(p) == SubSeq(p, 1, Len(p) - 1)

basename(p) == p[Len(p)]

exists(f, p) == p = Root \/ p \in DOMAIN f

isdir(f, p) == p = Root \/ (p \in DOMAIN f /\ f[p] = "dir")

isfile(f, p) == p \in DOMAIN f /\ f[p] # "dir"

\* os.listdir(p): the names directly in p
listdir(f, p) == {basename(q) : q \in {r \in DOMAIN f : r # Root /\ dirname(r) = p}}

Ancestors(p) == {SubSeq(p, 1, k) : k \in 1..Len(p)}

\* the files of a tree, by identity
FileIds(f) == {f[p] : p \in {q \in DOMAIN f : f[q] # "dir"}}

\* os.makedirs(p, exist_ok=True): [ok, fs]
makedirs(f, p) ==
    IF \E a \in Ancestors(p) : a \in DOMAIN f /\ f[a] # "dir"
    THEN [ok |-> FALSE, fs |-> f]
    ELSE [ok |-> TRUE,
          fs |-> [q \in DOMAIN f \cup Ancestors(p) |->
                    IF q \in DOMAIN f THEN f[q] ELSE "dir"]]

\* os.rename / copytree+rmtree of a whole subtree src to the free path dst
Rename(f, src, dst) ==
    LET moved == {q \in DOMAIN f : IsPrefix(src, q)}
        to(q) == dst \o SubSeq(q, Len(src) + 1, Len(q))
        kept  == (DOMAIN f \ moved) \ {dst}
        made  == {a \in Ancestors(dirname(dst)) : a \notin DOMAIN f}
    IN  [q \in kept \cup made \cup {to(m) : m \in moved} |->
            IF q \in kept THEN f[q]
            ELSE IF q \in made THEN "dir"
            ELSE f[CHOOSE m \in moved : to(m) = q]]

\* shutil.move(src, dst): [ok, fs]
shutil_move(f, src, dst) ==
    LET into     == isdir(f, dst) /\ src # dst
        real_dst == IF into THEN dst \o <<basename(src)>> ELSE dst
    IN  IF isdir(f, dst) /\ src = dst
        THEN [ok |-> TRUE, fs |-> f]             \* _samefile: os.rename(src, src)
        ELSE IF into /\ exists(f, real_dst)
        THEN [ok |-> FALSE, fs |-> f]            \* Error: destination exists
        ELSE IF ~exists(f, src)
        THEN [ok |-> FALSE, fs |-> f]            \* FileNotFoundError
        ELSE IF isfile(f, src)
        THEN IF real_dst = src
             THEN [ok |-> TRUE, fs |-> f]
             ELSE IF ~isdir(f, dirname(real_dst))
             THEN [ok |-> FALSE, fs |-> f]
             ELSE [ok |-> TRUE, fs |-> Rename(f, src, real_dst)]  \* replaces a file
        ELSE IF IsPrefix(src, real_dst)
        THEN [ok |-> FALSE, fs |-> f]            \* a directory into itself
        ELSE IF exists(f, real_dst)
        THEN [ok |-> FALSE, fs |-> f]            \* a directory onto a file
        ELSE IF \E a \in Ancestors(dirname(real_dst)) : isfile(f, a)
        THEN [ok |-> FALSE, fs |-> f]
        ELSE [ok |-> TRUE, fs |-> Rename(f, src, real_dst)]

\* str.lower() on the strings of the model
lower(s) ==
    CASE s = "Y" -> "y"
      [] s = "N" -> "n"
      [] s = "Package.JSON" -> "package.json"
      [] s = "Thumbs.db" -> "thumbs.db"
      [] s = "README.md" -> "readme.md"
      [] OTHER -> s

\* str.startswith(".") on the names of the model
startswith_dot(s) == s \in {".gitignore", ".hidden", ".git"}

----------------------------------------------------------------------------
(* get_relative_paths: classification of a directory.                      *)

ProjectMarkers ==
    {"requirements.txt", "setup.py", "package.json", "cargo.toml", "makefile",
     "cmakelists.txt", ".git", ".gitignore", "readme.md", "pipfile",
     "poetry.lock", "build.gradle", "pom.xml", "gemfile", "composer.json",
     "package-lock.json", "yarn.lock", "go.mod", "dockerfile",
     "docker-compose.yml", ".travis.yml", "jenkinsfile", ".gitlab-ci.yml",
     "tox.ini", "pytest.ini", ".eslintrc", "tsconfig.json"}

OsFiles ==
    {"$recycle.bin", "desktop.ini", "thumbs.db", "ntuser.dat", "ntuser.ini",
     "ntuser.pol", "usrclass.dat", "iconcache.db", "pagefile.sys",
     "hiberfil.sys", "swapfile.sys", "bootmgr", "bootnxt", "bootfont.bin",
     "autorun.inf", "system volume information"}

LargeThreshold == 30

\* os.walk's (dirs, files) of directory d
files(f, d) == {n \in listdir(f, d) : isfile(f, d \o <<n>>)}

dirs(f, d) == {n \in listdir(f, d) : isdir(f, d \o <<n>>)}

is_project(f, d) ==
    \/ \E file \in files(f, d) : lower(file) \in ProjectMarkers
    \/ "src" \in dirs(f, d)

\* is_large with the comparison off by one
is_large_inclusive(f, d) == Cardinality(files(f, d)) >= LargeThreshold /\ d # Root

is_large(f, d) == Cardinality(files(f, d)) > LargeThreshold /\ d # Root

needs_prompt(f, d) == is_project(f, d) \/ is_large(f, d)

is_eligible(file) == ~startswith_dot(file) /\ lower(file) \notin OsFiles

----------------------------------------------------------------------------
(* The inputs of apply_changes.                                            *)

Tree(entries) ==
    [p \in {e[1] : e \in entries} |-> (CHOOSE e \in entries : e[1] = p)[2]]

BaseEntries ==
    {<< <<"notes.txt">>, "f1" >>,
     << <<"photo.png">>, "f2" >>,
     << <<"docs">>, "dir" >>,
     << <<"docs", "proj">>, "dir" >>,
     << <<"docs", "proj", "package.json">>, "f3" >>}

ProjEntries ==
    {<< <<"proj">>, "dir" >>,
     << <<"proj", "package.json">>, "f4" >>}

Trees == {Tree(BaseEntries), Tree(BaseEntries \cup ProjEntries)}

Dirs(f) == {p \in DOMAIN f : f[p] = "dir"}

Files(f) == {p \in DOMAIN f : f[p] # "dir"}

SeqsUpTo(S, n) == UNION {[1..k -> S] : k \in 0..n}

Distinct(s) == \A a, b \in DOMAIN s : a # b => s[a] # s[b]

\* what a scan of f can leave in large_folders: rejected prompted folders,
\* none inside another (a rejected folder's subtree is never visited)
ExcludedLists(f) ==
    {s \in SeqsUpTo({d \in Dirs(f) : needs_prompt(f, d)}, 2) :
        /\ Distinct(s)
        /\ \A a, b \in DOMAIN s : ~Under(s[a], s[b])}

\* what the scan returns then
Eligible(f, lf) ==
    {p \in Files(f) : /\ is_eligible(basename(p))
                      /\ \A k \in DOMAIN lf : ~IsPrefix(lf[k], p)}

NewPaths ==
    {<<"text", "notes.txt">>, <<"images", "photo.png">>, <<"proj", "package.json">>}

NewFolderLists == {<<"text">>, <<"text", "images">>}

\* organization.FilePath: originals are scanned paths, each at most once, and
\* every file is given a new location (prompts.prompt_file_org, rule 2)
Plans(f, lf) ==
    {s \in SeqsUpTo([original : Eligible(f, lf), new : NewPaths], MaxPairs) :
        /\ \A k \in DOMAIN s : s[k].original # s[k].new
        /\ \A a, b \in DOMAIN s : a # b => s[a].original # s[b].original}

deprecated_folder == <<"deprecated">>

Answers == {"y", "Y", "n", ""}

----------------------------------------------------------------------------
(* create_change_log and apply_changes.                                    *)

NoFile == [exists |-> FALSE, text |-> <<>>]

\* open(change_log_path, "w"): the report replaces whatever the file held
create_change_log(org_folders, org_paths, lf) ==
    [exists |-> TRUE,
     text   |-> << [kind |-> "plan", new_folders |-> org_folders,
                    FilePath |-> org_paths, large_folders |-> lf] >>]

\* append_to_log: open(..., "a") creates the file when it is missing
append_to_log(cl, message) ==
    [exists |-> TRUE, text |-> Append(cl.text, message)]

ErrorEntries(cl) == {k \in DOMAIN cl.text : cl.text[k].kind # "plan"}

\* execute_or_log's logger.info
LogLine(op, src, dst) == [would |-> dry_run, op |-> op, src |-> src, dst |-> dst]

\* the same line without the "[DRY RUN] Would " prefix
Action(line) == [op |-> line.op, src |-> line.src, dst |-> line.dst]

Actions(l) == [k \in DOMAIN l |-> Action(l[k])]

\* execute_or_log without the dry_run test
execute_always(r, faulty) ==
    {r} \cup (IF errs < MaxFaults THEN {[ok |-> FALSE, fs |-> g] : g \in faulty} ELSE {})

\* execute_or_log's action(): the outcomes of running it.  r is what the
\* calls do on the tree as it is; faulty are the trees a PermissionError
\* raised by one of the calls can leave.
execute_or_log(r, faulty) ==
    IF dry_run
    THEN {[ok |-> TRUE, fs |-> fs]}
    ELSE {r} \cup
         (IF errs < MaxFaults THEN {[ok |-> FALSE, fs |-> g] : g \in faulty} ELSE {})

\* os.makedirs(os.path.dirname(dst)), shutil.move(src, dst)
MoveFile(f, src, dst) ==
    LET made == makedirs(f, dirname(dst))
    IN  IF made.ok THEN shutil_move(made.fs, src, dst) ELSE made

\* old_folders without the large folders' base names taken out
OldFoldersWithLarge(f) ==
    listdir(f, Root) \ {new_folders[k] : k \in DOMAIN new_folders}

\* set(os.listdir(directory)) - set(new_folders) - set(basenames of large_folders)
OldFolders(f) ==
    (listdir(f, Root) \ {new_folders[k] : k \in DOMAIN new_folders})
        \ {basename(large_folders[k]) : k \in DOMAIN large_folders}

\* the user_choice != "y" test of both handlers
Continues(answer) == lower(answer) = "y"

\* main: the operator confirmed; the change log is written, then apply_changes
\* reads DRY_RUN
CreateChangeLog ==
    /\ pc = "main"
    /\ changeLog' = create_change_log(new_folders, FilePath, large_folders)
    /\ pc' = "p1"
    /\ UNCHANGED <<fs, fs0, large_folders, new_folders, FilePath, dry_run, i,
                   old_folders, log, dryLog, run, errs, choice, result>>
    /\ UNCHANGED scanVars

\* phase 1: create the deprecated folder
CreateDeprecated ==
    /\ pc = "p1"
    /\ log' = Append(log, LogLine("create deprecated folder", Root, deprecated_folder))
    /\ \E o \in execute_or_log(makedirs(fs, deprecated_folder), {fs}) :
          /\ fs' = o.fs
          /\ pc' = IF o.ok THEN "p2" ELSE "outer"
          /\ errs' = IF o.ok THEN errs ELSE errs + 1
    /\ i' = 1
    /\ UNCHANGED <<fs0, large_folders, new_folders, FilePath, dry_run,
                   old_folders, dryLog, run, changeLog, choice, result>>
    /\ UNCHANGED scanVars

\* phase 2: one iteration of "for folder in large_folders"
MoveLargeFolder ==
    /\ pc = "p2"
    /\ i <= Len(large_folders)
    /\ LET src == large_folders[i]
           dst == <<basename(large_folders[i])>>
       IN  IF src # dst
           THEN /\ log' = Append(log, LogLine("move large folder", src, dst))
                /\ \E o \in execute_or_log(shutil_move(fs, src, dst), {fs}) :
                      /\ fs' = o.fs
                      /\ pc' = IF o.ok THEN "p2" ELSE "outer"
                      /\ errs' = IF o.ok THEN errs ELSE errs + 1
           ELSE UNCHANGED <<log, fs, pc, errs>>
    /\ i' = i + 1
    /\ UNCHANGED <<fs0, large_folders, new_folders, FilePath, dry_run,
                   old_folders, dryLog, run, changeLog, choice, result>>
    /\ UNCHANGED scanVars

LargeFoldersDone ==
    /\ pc = "p2"
    /\ i > Len(large_folders)
    /\ pc' = "p3"
    /\ i' = 1
    /\ UNCHANGED <<fs, fs0, large_folders, new_folders, FilePath, dry_run,
                   old_folders, log, dryLog, run, changeLog, errs, choice, result>>
    /\ UNCHANGED scanVars

\* phase 3: one iteration of "for folder in organization.new_folders"
CreateNewFolder ==
    /\ pc = "p3"
    /\ i <= Len(new_folders)
    /\ log' = Append(log, LogLine("create folder", Root, <<new_folders[i]>>))
    /\ \E o \in execute_or_log(makedirs(fs, <<new_folders[i]>>), {fs}) :
          /\ fs' = o.fs
          /\ pc' = IF o.ok THEN "p3" ELSE "outer"
          /\ errs' = IF o.ok THEN errs ELSE errs + 1
    /\ i' = i + 1
    /\ UNCHANGED <<fs0, large_folders, new_folders, FilePath, dry_run,
                   old_folders, dryLog, run, changeLog, choice, result>>
    /\ UNCHANGED scanVars

NewFoldersDone ==
    /\ pc = "p3"
    /\ i > Len(new_folders)
    /\ pc' = "p4"
    /\ i' = 1
    /\ UNCHANGED <<fs, fs0, large_folders, new_folders, FilePath, dry_run,
                   old_folders, log, dryLog, run, changeLog, errs, choice, result>>
    /\ UNCHANGED scanVars

\* the per-file handler asking before it has appended anything
FileErrorEntryLater(cl, src, dst) == cl

\* the entry the per-file handler appends before it asks
FileErrorEntry(cl, src, dst) ==
    append_to_log(cl, [kind |-> "file", src |-> src, dst |-> dst,
                       continued |-> FALSE])

\* phase 4: one iteration of "for file_path in organization.FilePath"; on
\* an error the handler appends to the change log and blocks in input()
MoveFileStep ==
    /\ pc = "p4"
    /\ i <= Len(FilePath)
    /\ LET src == FilePath[i].original
           dst == FilePath[i].new
           made == makedirs(fs, dirname(dst))
       IN  /\ log' = Append(log, LogLine("move/rename file", src, dst))
           /\ \E o \in execute_or_log(MoveFile(fs, src, dst), {fs, made.fs}) :
                 /\ fs' = o.fs
                 /\ IF o.ok
                    THEN /\ pc' = "p4"
                         /\ i' = i + 1
                         /\ UNCHANGED <<errs, changeLog>>
                    ELSE /\ pc' = "p4err"
                         /\ i' = i
                         /\ errs' = errs + 1
                         /\ changeLog' = FileErrorEntry(changeLog, src, dst)
    /\ UNCHANGED <<fs0, large_folders, new_folders, FilePath, dry_run,
                   old_folders, dryLog, run, choice, result>>
    /\ UNCHANGED scanVars

\* the per-file handler going on to phase 5 whatever the answer
FileErrorDecisionIgnored(user_choice, k) ==
    [pc |-> "p4", i |-> k + 1, result |-> "none"]

\* where the per-file handler goes on the lowercased answer: to the next
\* pair of the loop, or out of apply_changes ("return")
FileErrorDecision(user_choice, k) ==
    IF user_choice # "y"
    THEN [pc |-> "done", i |-> k, result |-> "aborted"]
    ELSE [pc |-> "p4", i |-> k + 1, result |-> "none"]

\* the operator answers "skip this file and continue? (y/n)"
FileErrorAnswer ==
    /\ pc = "p4err"
    /\ \E answer \in Answers :
          /\ choice' = lower(answer)
          /\ pc' = FileErrorDecision(lower(answer), i).pc
          /\ i' = FileErrorDecision(lower(answer), i).i
          /\ result' = FileErrorDecision(lower(answer), i).result
    /\ UNCHANGED <<fs, fs0, large_folders, new_folders, FilePath, dry_run,
                   old_folders, log, dryLog, run, changeLog, errs>>
    /\ UNCHANGED scanVars

\* the loop of phase 4 ends: old_folders is computed from the tree as it is
FileMovesDone ==
    /\ pc = "p4"
    /\ i > Len(FilePath)
    /\ pc' = "p5"
    /\ old_folders' = OldFolders(fs)
    /\ UNCHANGED <<fs, fs0, large_folders, new_folders, FilePath, dry_run, i,
                   log, dryLog, run, changeLog, errs, choice, result>>
    /\ UNCHANGED scanVars

\* the entries of old_folders that pass "os.path.isdir(src) and src !=
\* deprecated_folder"; the loop passes over the others without any effect
Movable(f, entries) ==
    {folder \in entries : isdir(f, <<folder>>) /\ <<folder>> # deprecated_folder}

\* phase 5: the next iteration of "for folder in old_folders" that passes
\* the test.  old_folders is a set: its iteration order is not fixed.
MoveOldFolder ==
    /\ pc = "p5"
    /\ \E folder \in Movable(fs, old_folders) :
          LET src == <<folder>>
              dst == deprecated_folder \o <<folder>>
          IN  /\ old_folders' = old_folders \ {folder}
              /\ log' = Append(log, LogLine("move old folder to deprecated", src, dst))
              /\ \E o \in execute_or_log(shutil_move(fs, src, dst), {fs}) :
                    /\ fs' = o.fs
                    /\ pc' = IF o.ok THEN "p5" ELSE "outer"
                    /\ errs' = IF o.ok THEN errs ELSE errs + 1
    /\ UNCHANGED <<fs0, large_folders, new_folders, FilePath, dry_run, i,
                   dryLog, run, changeLog, choice, result>>
    /\ UNCHANGED scanVars

\* the try block ends without an error: lines 298-301
Completed ==
    /\ pc = "p5"
    /\ Movable(fs, old_folders) = {}
    /\ pc' = "done"
    /\ result' = "completed"
    /\ UNCHANGED <<fs, fs0, large_folders, new_folders, FilePath, dry_run, i,
                   old_folders, log, dryLog, run, changeLog, errs, choice>>
    /\ UNCHANGED scanVars

\* the entry the outer handler appends, once the operator has answered
OuterErrorEntry(cl, answer) ==
    append_to_log(cl, [kind |-> "apply", src |-> Root, dst |-> Root,
                       continued |-> Continues(answer)])

\* except OSError: the handler blocks in input() first, appends afterwards,
\* and apply_changes ends either way
OuterErrorAnswer ==
    /\ pc = "outer"
    /\ \E answer \in Answers :
          /\ choice' = lower(answer)
          /\ changeLog' = OuterErrorEntry(changeLog, answer)
          /\ result' = IF Continues(answer) THEN "outer_continue" ELSE "outer_abort"
    /\ pc' = "done"
    /\ UNCHANGED <<fs, fs0, large_folders, new_folders, FilePath, dry_run, i,
                   old_folders, log, dryLog, run, errs>>
    /\ UNCHANGED scanVars

\* the operator, after a dry run, sets DRY_RUN=false and confirms the same
\* plan for the same directory
RunForReal ==
    /\ pc = "done"
    /\ dry_run
    /\ run = 1
    /\ dry_run' = FALSE
    /\ run' = 2
    /\ dryLog' = log
    /\ log' = <<>>
    /\ pc' = "main"
    /\ i' = 1
    /\ errs' = 0
    /\ result' = "none"
    /\ old_folders' = {}
    /\ choice' = ""
    /\ UNCHANGED <<fs, fs0, large_folders, new_folders, FilePath, changeLog>>
    /\ UNCHANGED scanVars

Init ==
    /\ fs0 \in Trees
    /\ fs = fs0
    /\ large_folders \in ExcludedLists(fs0)
    /\ new_folders \in NewFolderLists
    /\ FilePath \in Plans(fs0, large_folders)
    /\ dry_run \in BOOLEAN
    /\ pc = "main"
    /\ i = 1
    /\ old_folders = {}
    /\ log = <<>>
    /\ dryLog = <<>>
    /\ run = 1
    /\ changeLog = NoFile
    /\ errs = 0
    /\ choice = ""
    /\ result = "none"
    /\ stack = <<>>
    /\ relative_paths = <<>>
    /\ prompted = <<>>
    /\ visited = <<>>

Next ==
    \/ CreateChangeLog
    \/ CreateDeprecated
    \/ MoveLargeFolder
    \/ LargeFoldersDone
    \/ CreateNewFolder
    \/ NewFoldersDone
    \/ MoveFileStep
    \/ FileErrorAnswer
    \/ FileMovesDone
    \/ MoveOldFolder
    \/ Completed
    \/ OuterErrorAnswer
    \/ RunForReal

Spec == Init /\ [][Next]_vars

----------------------------------------------------------------------------
(* get_relative_paths.                                                     *)

PadNames == <<"p01", "p02", "p03", "p04", "p05", "p06", "p07", "p08", "p09", "p10", "p11", "p12", "p13", "p14", "p15", "p16", "p17", "p18", "p19", "p20", "p21", "p22", "p23", "p24", "p25", "p26", "p27", "p28", "p29", "p30", "p31", "p32">>

\* n ordinary files
Pad(n) == {PadNames[k] : k \in 1..n}

\* what a directory may hold: exactly LargeThreshold files, two of them not
\* eligible; a project of two files; LargeThreshold + 1 ordinary files
FileProfiles ==
    {Pad(LargeThreshold - 2) \cup {".hidden", "Thumbs.db"},
     {"Package.JSON", "app.js"},
     Pad(LargeThreshold + 1)}

ScanDirs == {<<"a">>, <<"a", "b">>, <<"a", "b", "c">>, <<"a", "src">>, <<"src">>}

Shapes ==
    {S \in SUBSET ScanDirs :
        /\ Cardinality(S) <= MaxDirs
        /\ \A d \in S : dirname(d) = Root \/ dirname(d) \in S}

\* the tree with directories S and, in each directory d, the files content[d]
ScanTree(S, content) ==
    LET fileset == UNION {{d \o <<n>> : n \in content[d]} : d \in S \cup {Root}}
    IN  [q \in S \cup fileset |-> IF q \in S THEN "dir" ELSE "file"]

ScanTrees ==
    UNION {{ScanTree(S, c) : c \in [S \cup {Root} -> FileProfiles]} : S \in Shapes}

Orders(S) == {s \in [1..Cardinality(S) -> S] : Distinct(s)}

RECURSIVE SetToSeq(_)
\* the names of a directory in the order os.walk lists them
SetToSeq(S) ==
    IF S = {} THEN <<>>
    ELSE LET n == CHOOSE x \in S : TRUE IN <<n>> \o SetToSeq(S \ {n})

\* os.path.relpath(root, directory)
relpath(d) == IF d = Root THEN <<".">> ELSE d

\* "for file in files": the paths the loop appends
CollectFiles(f, d) ==
    LET names == SetToSeq(files(f, d))
    IN  SelectSeq([k \in DOMAIN names |-> d \o <<names[k]>>],
                  LAMBDA path : is_eligible(basename(path)))

\* the subdirectories os.walk visits after d, in listing order
Children(f, d, order) == [k \in DOMAIN order |-> d \o <<order[k]>>]

Prompt(f, d, answer) ==
    [dir |-> d, nfiles |-> Cardinality(files(f, d)),
     kind |-> IF is_project(f, d) THEN "Programming project" ELSE "Large folder",
     choice |-> lower(answer)]

\* os.walk yields a directory that is neither project-like nor large
ScanPlain ==
    /\ pc = "scan"
    /\ stack # <<>>
    /\ LET d == Head(stack)
       IN  /\ ~needs_prompt(fs, d)
           /\ visited' = Append(visited, d)
           /\ relative_paths' = relative_paths \o CollectFiles(fs, d)
           /\ \E order \in Orders(dirs(fs, d)) :
                 stack' = Children(fs, d, order) \o Tail(stack)
    /\ UNCHANGED <<fs, fs0, large_folders, pc, choice, prompted>>
    /\ UNCHANGED applyVars

\* the operator is asked and answers y
ScanInclude ==
    /\ pc = "scan"
    /\ stack # <<>>
    /\ LET d == Head(stack)
       IN  /\ needs_prompt(fs, d)
           /\ \E answer \in Answers :
                 /\ Continues(answer)
                 /\ choice' = lower(answer)
                 /\ prompted' = Append(prompted, Prompt(fs, d, answer))
           /\ visited' = Append(visited, d)
           /\ relative_paths' = relative_paths \o CollectFiles(fs, d)
           /\ \E order \in Orders(dirs(fs, d)) :
                 stack' = Children(fs, d, order) \o Tail(stack)
    /\ UNCHANGED <<fs, fs0, large_folders, pc>>
    /\ UNCHANGED applyVars

\* the exclusion without "dirs[:] = []"
UnprunedChildren(f, d, order) == [k \in DOMAIN order |-> d \o <<order[k]>>]

\* dirs[:] = []: what is left of the subdirectories os.walk would visit
PrunedChildren(f, d, order) == <<>>

\* the operator is asked and answers anything else: dirs[:] = []; continue
ScanExclude ==
    /\ pc = "scan"
    /\ stack # <<>>
    /\ LET d == Head(stack)
       IN  /\ needs_prompt(fs, d)
           /\ \E answer \in Answers :
                 /\ ~Continues(answer)
                 /\ choice' = lower(answer)
                 /\ prompted' = Append(prompted, Prompt(fs, d, answer))
           /\ visited' = Append(visited, d)
           /\ large_folders' = Append(large_folders, relpath(d))
           /\ \E order \in Orders(dirs(fs, d)) :
                 stack' = PrunedChildren(fs, d, order) \o Tail(stack)
    /\ UNCHANGED <<fs, fs0, relative_paths, pc>>
    /\ UNCHANGED applyVars

\* os.walk is exhausted: return relative_paths
ScanReturn ==
    /\ pc = "scan"
    /\ stack = <<>>
    /\ pc' = "scanned"
    /\ UNCHANGED <<fs, fs0, large_folders, choice>>
    /\ UNCHANGED scanVars
    /\ UNCHANGED applyVars

InitScan ==
    /\ fs0 \in ScanTrees
    /\ fs = fs0
    /\ large_folders = <<>>
    /\ new_folders = <<>>
    /\ FilePath = <<>>
    /\ dry_run = TRUE
    /\ pc = "scan"
    /\ i = 1
    /\ old_folders = {}
    /\ log = <<>>
    /\ dryLog = <<>>
    /\ run = 1
    /\ changeLog = NoFile
    /\ errs = 0
    /\ choice = ""
    /\ result = "none"
    /\ stack = <<Root>>
    /\ relative_paths = <<>>
    /\ prompted = <<>>
    /\ visited = <<>>

NextScan ==
    \/ ScanPlain
    \/ ScanInclude
    \/ ScanExclude
    \/ ScanReturn

SpecScan == InitScan /\ [][NextScan]_vars

----------------------------------------------------------------------------
(* Properties.                                                             *)

Range(q) == {q[k] : k \in DOMAIN q}

Ops(l) == {l[k].op : k \in DOMAIN l}

PhaseOps ==
    {"create deprecated folder", "move large folder", "create folder",
     "move/rename file", "move old folder to deprecated"}

Count(l, op) == Cardinality({k \in DOMAIN l : l[k].op = op})

RealDone == pc = "done" /\ ~dry_run

\* C1: in a dry run apply_changes mutates nothing in any phase: from the
\* moment it is called the tree under the directory is the tree it was
\* called on, and the change log file is as create_change_log left it.
C1_DryRunApplyMutatesNothing ==
    (dry_run /\ pc \in {"p1", "p2", "p3", "p4", "p4err", "p5", "outer", "done"})
        => /\ fs = fs0
           /\ changeLog = create_change_log(new_folders, FilePath, large_folders)

\* a dry run that went through all five phases and logged an action in each
C1_Witness ==
    /\ dry_run
    /\ pc = "done"
    /\ result = "completed"
    /\ Ops(log) = PhaseOps

\* C2: after a real apply without an error, for every pair of the plan the
\* file that was at original is at new and no longer at original, whatever
\* new_folders lists.
C2_FilesEndAtNewPath ==
    (RealDone /\ errs = 0)
        => \A k \in DOMAIN FilePath :
              /\ isfile(fs, FilePath[k].new)
              /\ fs[FilePath[k].new] = fs0[FilePath[k].original]
              /\ ~(/\ isfile(fs, FilePath[k].original)
                   /\ fs[FilePath[k].original] = fs0[FilePath[k].original])

\* the files a folder held when the program started, as paths inside it
Inside(folder) ==
    {SubSeq(p, Len(folder) + 1, Len(p)) : p \in {q \in Files(fs0) : IsPrefix(folder, q)}}

Home(k) ==
    LET folder == large_folders[k]
        top    == <<basename(folder)>>
    IN  IF folder = top THEN top
        ELSE IF \/ isdir(fs0, top)
                \/ \E j \in 1..(k - 1) : basename(large_folders[j]) = basename(folder)
        THEN top \o <<basename(folder)>>
        ELSE top

Rejected == {k \in DOMAIN prompted : prompted[k].choice # "y"}

\* C4: a rejected folder is recorded in large_folders, no file in it or
\* below it is among the eligible paths, and nothing below it is visited or
\* prompted.
C4_RejectedSubtreeIsSkipped ==
    \A k \in Rejected :
        LET d == prompted[k].dir
        IN  /\ relpath(d) \in Range(large_folders)
            /\ \A n \in DOMAIN relative_paths : ~IsPrefix(d, relative_paths[n])
            /\ \A n \in DOMAIN visited : ~Under(d, visited[n])
            /\ \A n \in DOMAIN prompted : ~Under(d, prompted[n].dir)

\* the scan is over; a rejected folder below the root had files of its own
\* and a subdirectory, and other files were collected
C4_Witness ==
    /\ pc = "scanned"
    /\ relative_paths # <<>>
    /\ \E k \in Rejected :
          /\ prompted[k].dir # Root
          /\ files(fs, prompted[k].dir) # {}
          /\ dirs(fs, prompted[k].dir) # {}

WasPrompted(d) == \E k \in DOMAIN prompted : prompted[k].dir = d

HasMarker(d) ==
    \E p \in Files(fs) : dirname(p) = d /\ lower(basename(p)) \in ProjectMarkers

HasSrc(d) == isdir(fs, d \o <<"src">>)

NumFiles(d) == Cardinality({p \in Files(fs) : dirname(p) = d})

\* C5: a visited directory is prompted exactly when it holds a marker file
\* (case-insensitively) or a subdirectory src, or it has more than 30 files
\* and is not the scan root; and it is prompted once.
C5_PromptedExactlyWhenProjectOrLarge ==
    /\ \A n \in DOMAIN visited :
          WasPrompted(visited[n])
              <=> \/ HasMarker(visited[n])
                  \/ HasSrc(visited[n])
                  \/ (NumFiles(visited[n]) > 30 /\ visited[n] # Root)
    /\ \A a, b \in DOMAIN prompted : prompted[a].dir = prompted[b].dir => a = b
    /\ \A k \in DOMAIN prompted : prompted[k].dir \in Range(visited)

\* the scan is over; it prompted for a folder of 31 plain files and for a
\* project folder of 2 files, and not for a folder of 30 plain files
C5_Witness ==
    /\ pc = "scanned"
    /\ \E d \in Range(visited) :
          d # Root /\ NumFiles(d) = 31 /\ ~HasMarker(d) /\ ~HasSrc(d) /\ WasPrompted(d)
    /\ \E d \in Range(visited) :
          NumFiles(d) = 2 /\ HasMarker(d) /\ WasPrompted(d)
    /\ \E d \in Range(visited) :
          d # Root /\ NumFiles(d) = 30 /\ ~WasPrompted(d)

\* C6: at a per-file error the answer alone decides: on y the loop goes on
\* with the next pair, every pair is attempted and phase 5 is reached; on
\* anything else apply_changes returns there, with the tree as it is: no
\* further pair, no phase 5, nothing undone.
C6_AnswerDecidesAfterFileError ==
    /\ [](/\ (pc = "p5" \/ result = "completed")
              => Count(log, "move/rename file") = Len(FilePath)
          /\ result = "aborted"
              => /\ pc = "done"
                 /\ Count(log, "move/rename file") = i
                 /\ i <= Len(FilePath)
                 /\ Count(log, "move old folder to deprecated") = 0)
    /\ [][/\ (pc = "p4err" /\ pc' # "p4err")
              => IF choice' = "y"
                 THEN pc' = "p4" /\ i' = i + 1 /\ fs' = fs
                 ELSE pc' = "done" /\ result' = "aborted" /\ fs' = fs /\ log' = log
          /\ (pc = "p4" /\ i > Len(FilePath) /\ pc' # pc) => pc' = "p5"
          /\ (pc = "done" /\ result = "aborted") => UNCHANGED vars]_vars

\* the first of two moves failed, the operator chose to skip, the second
\* move was made and phase 5 archived a folder
C6_Witness ==
    /\ RealDone
    /\ result = "completed"
    /\ errs = 1
    /\ choice = "y"
    /\ Len(FilePath) = 2
    /\ ErrorEntries(changeLog) # {}
    /\ changeLog.text[2].src = FilePath[1].original
    /\ isfile(fs, FilePath[2].new)
    /\ Count(log, "move old folder to deprecated") > 0

\* C7 as stated: whenever the operator is asked about an error, by either
\* handler, the entry of that error is already in the change log.
C7_ErrorLoggedBeforeEveryPrompt ==
    pc \in {"p4err", "outer"} => Cardinality(ErrorEntries(changeLog)) = errs

\* C7, amended: the per-file handler of phase 4 appends the entry of the
\* error before it asks; the outer handler asks first and appends the entry
\* only after the answer, whatever the answer is.
C7_FileErrorLoggedBeforePromptOuterAfter ==
    /\ pc = "p4err"
          => /\ Cardinality(ErrorEntries(changeLog)) = errs
             /\ changeLog.text[Len(changeLog.text)].kind = "file"
             /\ changeLog.text[Len(changeLog.text)].src = FilePath[i].original
    /\ pc = "outer" => Cardinality(ErrorEntries(changeLog)) = errs - 1
    /\ (pc = "done" /\ result \in {"outer_abort", "outer_continue"})
          => /\ Cardinality(ErrorEntries(changeLog)) = errs
             /\ changeLog.text[Len(changeLog.text)].kind = "apply"
             /\ changeLog.text[Len(changeLog.text)].continued = (choice = "y")

\* the outer handler is waiting for the answer and the change log holds
\* the plan only
C7_Witness ==
    /\ pc = "outer"
    /\ errs = 1
    /\ changeLog.exists
    /\ ErrorEntries(changeLog) = {}

\* C8: a whole dry run, create_change_log then apply_changes, leaves
\* everything under the directory as it was: the tree, and no file created
\* or overwritten.
C8_DryRunLeavesDirectoryUnchanged ==
    (dry_run /\ pc = "done") => (fs = fs0 /\ changeLog = NoFile)

\* the actions logged before phase 5, in order
BeforeArchive(l) ==
    SelectSeq(Actions(l), LAMBDA a : a.op # "move old folder to deprecated")

\* the moves of phase 5, which iterates a set
Archived(l) ==
    {a \in Range(Actions(l)) : a.op = "move old folder to deprecated"}

\* C9: for the same tree, plan and excluded folders, a real apply without
\* an error logs the actions the dry run logged: the same sequence through
\* phases 1 to 4 and the same moves to deprecated in phase 5.
C9_DryRunLogsWhatRealRunDoes ==
    (RealDone /\ run = 2 /\ errs = 0)
        => /\ BeforeArchive(log) = BeforeArchive(dryLog)
           /\ Archived(log) = Archived(dryLog)

\* C10: a real apply never loses a file: every file of the tree it was
\* called on is still somewhere in the tree when it returns.
C10_NoFileLost ==
    RealDone
        => /\ FileIds(fs) = FileIds(fs0)
           /\ Cardinality(Files(fs)) = Cardinality(Files(fs0))

====
